---- MODULE Spec2Model ----
(***************************************************************************)
(* A model of the fetch orchestration of the market-data server            *)
(* (app/services/fetcher.py, app/adapters/ccxt_adapter.py,                 *)
(* app/services/cache.py).                                                  *)
(*                                                                          *)
(* Every coroutine is a task slot with a program counter.  One action is    *)
(* the code that runs between two awaits that really suspend:               *)
(*   get       the decorator's cache lookup is pending                      *)
(*   fetch     the adapter's upstream call is pending                       *)
(*   cmc       an HTTP request to CoinMarketCap is pending                  *)
(*   cmc_wait  tenacity sleeps between two attempts                         *)
(*   close     adapter.close() (the finally clause) is pending              *)
(*   set       the decorator's cache write is pending                       *)
(*   done      the coroutine has returned or raised                         *)
(*                                                                          *)
(* Strings are sequences of one-character strings, so that str.split and    *)
(* the f-string of the key builder are computed and not assumed.            *)
(* Floats are integers.  Python's None in a numeric field is NoneValue.     *)
(* Time is kept by timers that Tick runs down by a second: the seconds a     *)
(* cache entry still lives, the seconds a sleep still lasts.                 *)
(***************************************************************************)
EXTENDS Integers, Sequences, FiniteSets, TLC

VARIABLES store, task, batch, batchResult, settings_COINMARKETCAP_KEY

vars == <<store, task, batch, batchResult, settings_COINMARKETCAP_KEY>>

----------------------------------------------------------------------------
(* Bounds of the model *)

MaxTasks == 2

Tasks == 1..MaxTasks

\* The longest string of the specification SpecKey.
MaxStrLen == 2

----------------------------------------------------------------------------
(* Program constants *)

\* fetcher.py:22  cached(ttl=10, ...)
TTL == 10
\* fetcher.py:83  stop_after_attempt(3)
MaxAttempts == 3
\* fetcher.py:83  wait_exponential(multiplier=1, min=2, max=10)
WaitMultiplier == 1
WaitMin == 2
WaitMax == 10

NoneValue == 0 - 1

----------------------------------------------------------------------------
(* Strings *)

Slash == "/"
Colon == ":"

\* The inputs: exchange identifiers and symbols.
ExA == <<"a">>
ExB == <<"b">>
ExZ == <<"z">>
SymBU == <<"B", "/", "U">>
SymX == <<"X">>

Exchanges == {ExA, ExB, ExZ}
Symbols == {SymBU, SymX}

\* ccxt.exchanges: ExZ is not a supported exchange.
ccxt_exchanges == {ExA, ExB}

\* exchange.has["fetchOHLCV"]: ExB does not offer OHLCV.
has_fetchOHLCV(exchange) == exchange = ExA

RECURSIVE SplitAcc(_, _, _, _)
SplitAcc(s, sep, cur, acc) ==
    IF s = <<>> THEN Append(acc, cur)
    ELSE IF Head(s) = sep
         THEN SplitAcc(Tail(s), sep, <<>>, Append(acc, cur))
         ELSE SplitAcc(Tail(s), sep, Append(cur, Head(s)), acc)

\* str.split(sep)
split(s, sep) == SplitAcc(s, sep, <<>>, <<>>)

\* f"ticker:{kwargs['exchange']}:{kwargs['symbol']}"
key_builder(exchange, symbol) ==
    <<"t", "i", "c", "k", "e", "r", Colon>> \o exchange \o <<Colon>> \o symbol

----------------------------------------------------------------------------
(* Records: models.py *)

\* A missing key of a mapping (a quote object without "bid").
Absent == 0 - 2

IsNumber(v) == v # NoneValue /\ v # Absent

\* Ticker(BaseModel): every field is required and numeric; pydantic raises a
\* ValidationError for None.
Ticker_valid(f) ==
    /\ IsNumber(f.last) /\ IsNumber(f.bid) /\ IsNumber(f.ask)
    /\ IsNumber(f.high) /\ IsNumber(f.low) /\ IsNumber(f.volume)
    /\ IsNumber(f.timestamp)

Ticker(symbol, timestamp, last, bid, ask, high, low, volume) ==
    [symbol |-> symbol, last |-> last, bid |-> bid, ask |-> ask, high |-> high,
     low |-> low, volume |-> volume, timestamp |-> timestamp]

NoTicker == Ticker(<<>>, 0, 0, 0, 0, 0, 0, 0)

\* What a coroutine returns: a Ticker object, a JSON object (dict) read back from
\* the cache, a list of Ohlcv, an OrderBook.
Value(kind, val) == [kind |-> kind, val |-> val]
NoValue == Value("None", NoTicker)

\* Exceptions: the class, the status_code and the detail of an HTTPException,
\* and for a tenacity.RetryError the exception of the last attempt, which it wraps.
Exc(exc, status, detail, last_exc, last_status) ==
    [exc |-> exc, status |-> status, detail |-> detail, last_exc |-> last_exc,
     last_status |-> last_status]
NoExc == Exc("", 0, "", "", 0)
HTTPException(status, detail) == Exc("HTTPException", status, detail, "", 0)
Raised(name) == Exc(name, 0, "", "", 0)

\* The outcome of a coroutine, or of a part of one: nothing yet, a value, an exception.
Returns(v) == [kind |-> "value", value |-> v, err |-> NoExc]
Raises(e) == [kind |-> "error", value |-> NoValue, err |-> e]
NoOut == [kind |-> "none", value |-> NoValue, err |-> NoExc]

----------------------------------------------------------------------------
(* The upstream exchange, as ccxt presents it *)

\* What exchange.fetch_ticker answers: a ticker dict, or an exception.
ticker_data(symbol, last, vwap) ==
    [symbol |-> symbol, timestamp |-> 7, last |-> last, bid |-> last - 1,
     ask |-> last + 1, high |-> last + 10, low |-> last - 10, vwap |-> vwap]

CcxtTickerAnswers(symbol) ==
    { [kind |-> "ok", data |-> d] :
        d \in {ticker_data(symbol, 50, 55), ticker_data(symbol, 52, 56),
               ticker_data(symbol, 50, NoneValue)} }
    \cup { [kind |-> k, data |-> ticker_data(symbol, 0, 0)] :
             k \in {"BadSymbol", "NetworkError", "Exception"} }

\* CCXTAdapter.get_ticker: ccxt_adapter.py:46-69
CCXTAdapter_get_ticker(symbol, up) ==
    CASE up.kind = "ok" ->
           LET d == up.data
               t == Ticker(d.symbol, d.timestamp, d.last, d.bid, d.ask, d.high,
                           d.low, d.vwap)
           IN  IF Ticker_valid(t) THEN Returns(Value("Ticker", t))
               ELSE Raises(HTTPException(500, "An unexpected error occurred"))
      [] up.kind = "BadSymbol" -> Raises(HTTPException(404, "Symbol not found on exchange"))
      [] up.kind = "NetworkError" -> Raises(HTTPException(503, "Network error connecting"))
      [] OTHER -> Raises(HTTPException(500, "An unexpected error occurred"))

\* What exchange.fetch_ohlcv answers: rows [timestamp, open, high, low, close,
\* volume], or an exception.
CcxtOhlcvAnswers ==
    { [kind |-> "ok", rows |-> r] :
        r \in {<<>>, <<<<1, 5, 9, 4, 6, 100>>>>,
               <<<<1, 5, 9, 4, 6, 100>>, <<2, 6, 8, 5, 7, NoneValue>>>>} }
    \cup { [kind |-> k, rows |-> <<>>] : k \in {"BadSymbol", "NetworkError", "Exception"} }

Ohlcv(item) ==
    [timestamp |-> item[1], open |-> item[2], high |-> item[3], low |-> item[4],
     close |-> item[5], volume |-> item[6]]

Ohlcv_valid(item) == \A i \in 1..6 : IsNumber(item[i])

\* CCXTAdapter.get_historical_data after the capability check:
\* ccxt_adapter.py:91-109
CCXTAdapter_get_historical_data(up) ==
    IF up.kind = "ok" /\ \A i \in 1..Len(up.rows) : Ohlcv_valid(up.rows[i])
    THEN Returns(Value("Ohlcv[]", [i \in 1..Len(up.rows) |-> Ohlcv(up.rows[i])]))
    ELSE Raises(HTTPException(500, "Failed to fetch historical data"))

\* What exchange.fetch_order_book answers: the levels the exchange chose to send
\* (the limit is a request parameter), or an exception.
Levels == {<<>>, <<<<9, 1>>, <<8, 2>>>>}

CcxtOrderBookAnswers(symbol, limit) ==
    { [kind |-> "ok", symbol |-> symbol, bids |-> b, asks |-> b, timestamp |-> ts] :
        b \in Levels, ts \in {7, NoneValue} }
    \cup { [kind |-> k, symbol |-> symbol, bids |-> <<>>, asks |-> <<>>, timestamp |-> 0] :
             k \in {"NetworkError", "Exception"} }

OrderBook(symbol, bids, asks, timestamp) ==
    [symbol |-> symbol, bids |-> bids, asks |-> asks, timestamp |-> timestamp]

\* CCXTAdapter.get_order_book: ccxt_adapter.py:122-133
CCXTAdapter_get_order_book(up) ==
    IF up.kind = "ok" /\ IsNumber(up.timestamp)
    THEN Returns(Value("OrderBook", OrderBook(up.symbol, up.bids, up.asks, up.timestamp)))
    ELSE Raises(HTTPException(500, "Failed to fetch order book"))

----------------------------------------------------------------------------
(* The secondary provider: _fetch_from_coinmarketcap, fetcher.py:83-127 *)

\* A quote object of the response; Absent marks a key the object does not have.
Quote(price, volume_24h, rest) ==
    [price |-> price, volume_24h |-> volume_24h, bid |-> rest, ask |-> rest,
     high_24h |-> rest, low_24h |-> rest]

\* data["data"]: the quote objects by base and quote currency.
Entry(base, quote, q) == [base |-> base, quote |-> quote, q |-> q]

HttpDate == "Sun, 01 Jan 2023 00:00:00 GMT"

\* What client.get answers: a network error, or a response with a status, a Date
\* header ("" when the response has none) and a body that is JSON or not.
Response(kind, status, date, json, data) ==
    [kind |-> kind, status |-> status, date |-> date, json |-> json, data |-> data]

NoResponse == Response("", 0, "", FALSE, {})

CmcAnswers ==
    LET B == <<"B">>
        U == <<"U">>
    IN  { Response("RequestError", 0, "", FALSE, {}),
          Response("response", 429, HttpDate, TRUE, {}),
          Response("response", 200, "", FALSE, {}),
          Response("response", 200, "", TRUE, {}),
          Response("response", 200, "", TRUE, {Entry(B, B, Quote(3, 4, Absent))}),
          Response("response", 200, "", TRUE, {Entry(B, U, Quote(3, Absent, Absent))}),
          Response("response", 200, "", TRUE, {Entry(B, U, Quote(3, 4, Absent))}),
          Response("response", 200, "16", TRUE, {Entry(B, U, Quote(5, 6, 2))}),
          Response("response", 200, HttpDate, TRUE, {Entry(B, U, Quote(3, 4, Absent))}) }

\* int(s) of a header value: a ValueError unless s is a decimal numeral.
int_ok(s) == s \in {"0", "16"}
int(s) == IF s = "16" THEN 16 ELSE 0

\* dict.get(key, default)
dict_get(v, default) == IF v = Absent THEN default ELSE v

\* except (KeyError, IndexError): fetcher.py:123-127
ParseError == HTTPException(404, "Could not parse CoinMarketCap response")

\* One run of the function body once the response is there: fetcher.py:102-127
cmc_body(symbol, resp) ==
    LET parts == split(symbol, Slash)
        date == IF resp.date = "" THEN "0" ELSE resp.date
    IN  IF resp.kind = "RequestError" THEN Raises(Raised("RequestError"))
        ELSE IF resp.status >= 400 THEN Raises(HTTPException(resp.status, "Error from CoinMarketCap"))
        ELSE IF ~resp.json THEN Raises(Raised("JSONDecodeError"))
        ELSE IF \A e \in resp.data : e.base # parts[1] THEN Raises(ParseError)
        ELSE IF Len(parts) < 2 THEN Raises(ParseError)
        ELSE IF \A e \in resp.data : ~(e.base = parts[1] /\ e.quote = parts[2])
             THEN Raises(ParseError)
        ELSE LET quote == (CHOOSE e \in resp.data :
                               e.base = parts[1] /\ e.quote = parts[2]).q
             IN  IF ~int_ok(date) THEN Raises(Raised("ValueError"))
                 ELSE IF quote.price = Absent THEN Raises(ParseError)
                 ELSE IF quote.volume_24h = Absent THEN Raises(ParseError)
                 ELSE LET t == Ticker(symbol, int(date), quote.price,
                                      dict_get(quote.bid, 0), dict_get(quote.ask, 0),
                                      dict_get(quote.high_24h, 0),
                                      dict_get(quote.low_24h, 0), quote.volume_24h)
                      IN  IF Ticker_valid(t) THEN Returns(Value("Ticker", t))
                          ELSE Raises(Raised("ValidationError"))

\* wait_exponential(multiplier=1, min=2, max=10) after attempt number n
Min(a, b) == IF a < b THEN a ELSE b
Max(a, b) == IF a > b THEN a ELSE b
wait_exponential(n) == Max(Max(0, WaitMin), Min(WaitMultiplier * 2 ^ (n - 1), WaitMax))

\* tenacity, reraise=False: when the attempts are used up the caller gets a
\* RetryError that wraps the last attempt, not the last attempt's exception.
RetryError(e) == Exc("RetryError", 0, "", e.exc, e.status)

----------------------------------------------------------------------------
(* The cache: cache.py:9-27, and the cached decorator of fetcher.py:22 *)

\* JsonSerializer.dumps is json.dumps: it takes dicts, lists, strings and
\* numbers, and raises a TypeError for any other object; a Ticker is a pydantic
\* model object.
JsonSerializer_dumps_ok(value) == value.kind = "dict"
JsonSerializer_dumps(value) == Value("json", value.val)
\* JsonSerializer.loads is json.loads: a JSON object comes back as a dict.
JsonSerializer_loads(text) == Value("dict", text.val)

\* An entry and the seconds it still lives.
CacheEntry(key, value, ttl) == [key |-> key, value |-> value, ttl |-> ttl]

Live(entries, key) == {c \in entries : c.key = key /\ c.ttl > 0}

\* cache.get(key): the stored value through the serializer, or None
cache_get(entries, key) ==
    IF Live(entries, key) = {} THEN NoValue
    ELSE JsonSerializer_loads((CHOOSE c \in Live(entries, key) : TRUE).value)

\* cache.set(key, value, ttl): the entry replaces the key's entry and is deleted ttl
\* seconds later
cache_set(entries, key, value, ttl) ==
    {c \in entries : c.key # key} \cup {CacheEntry(key, JsonSerializer_dumps(value), ttl)}

\* cached.set_in_cache: an exception of cache.set is logged and dropped
set_in_cache(entries, key, value) ==
    IF JsonSerializer_dumps_ok(value) THEN cache_set(entries, key, value, TTL)
    ELSE entries

\* The memory backend's call_later(ttl, delete), a second later
Expire(entries) ==
    {CacheEntry(c.key, c.value, c.ttl - 1) : c \in {d \in entries : d.ttl > 1}}

----------------------------------------------------------------------------
(* Tasks *)

Truthy(str) == str # ""

Idle ==
    [pc |-> "idle", op |-> "", exchange |-> <<>>, symbol |-> <<>>, limit |-> 0,
     adapter |-> "none", closes |-> 0, primary |-> 0, primaryStatus |-> 0,
     fallbacks |-> 0, attempts |-> 0, requests |-> 0, wake |-> 0, sets |-> 0,
     aged |-> FALSE, hit |-> FALSE, recent |-> FALSE, failures |-> 0,
     cause |-> "", lastResp |-> NoResponse, out |-> NoOut]

Call(op, exchange, symbol, limit) ==
    [Idle EXCEPT !.op = op, !.exchange = exchange, !.symbol = symbol, !.limit = limit]

\* CCXTAdapter.__init__: ccxt_adapter.py:22-27
CCXTAdapter_init_ok(exchange) == exchange \in ccxt_exchanges

\* Mutant of cmc_failed: one attempt more than stop_after_attempt allows.
cmc_failed_one_more(k, e) ==
    IF k.attempts <= MaxAttempts
    THEN [k EXCEPT !.pc = "cmc_wait", !.wake = wait_exponential(k.attempts),
                   !.failures = @ + 1, !.lastResp = NoResponse]
    ELSE [k EXCEPT !.pc = IF k.op = "cmc" THEN "done" ELSE "close",
                   !.failures = @ + 1, !.out = Raises(RetryError(e))]

\* tenacity after a failed attempt: sleep and try again, or give up
cmc_failed(k, e) ==
    IF k.attempts < MaxAttempts
    THEN [k EXCEPT !.pc = "cmc_wait", !.wake = wait_exponential(k.attempts),
                   !.failures = @ + 1, !.lastResp = NoResponse]
    ELSE [k EXCEPT !.pc = IF k.op = "cmc" THEN "done" ELSE "close",
                   !.failures = @ + 1, !.out = Raises(RetryError(e))]

\* The start of one attempt of _fetch_from_coinmarketcap, up to client.get:
\* fetcher.py:88-101.  Without a key the attempt fails before any request.
cmc_begin(k, key) ==
    IF ~Truthy(key)
    THEN cmc_failed([k EXCEPT !.attempts = @ + 1],
                    HTTPException(501, "CoinMarketCap API key not configured"))
    ELSE [k EXCEPT !.attempts = @ + 1, !.requests = @ + 1, !.pc = "cmc"]

\* the function returned a Ticker
cmc_returned(k, r) ==
    [k EXCEPT !.pc = IF k.op = "cmc" THEN "done" ELSE "close", !.out = r]

----------------------------------------------------------------------------
(* State *)

NoBatch == [state |-> "none", n |-> 0]
BatchOut(kind, results, err) == [kind |-> kind, results |-> results, err |-> err]
NoBatchOut == BatchOut("none", <<>>, NoExc)

Requests == Exchanges \X Symbols

Init ==
    /\ store = {}
    /\ task = [t \in Tasks |-> Idle]
    /\ batch = NoBatch
    /\ batchResult = NoBatchOut
    /\ settings_COINMARKETCAP_KEY \in {"", "test_key"}

InBatch(t) == batch.state # "none" /\ t <= batch.n

\* A call from an endpoint takes the first free slot.
Free(t) ==
    /\ task[t].pc = "idle"
    /\ ~InBatch(t)
    /\ \A u \in 1..(t - 1) : task[u].pc # "idle" \/ InBatch(u)

----------------------------------------------------------------------------
(* DataFetcher.get_ticker under the cached decorator: fetcher.py:21-39 *)

\* History: a get_ticker for the same key has returned a Ticker, the decorator
\* has handed it to the cache, and not a second has passed since.
RecentlySet(exchange, symbol) ==
    \E u \in Tasks :
        /\ task[u].pc = "done" /\ task[u].op = "ticker" /\ task[u].sets > 0
        /\ ~task[u].aged
        /\ key_builder(task[u].exchange, task[u].symbol) = key_builder(exchange, symbol)

\* The endpoint calls get_ticker: the decorator builds the key and asks the cache.
StartTicker(t) ==
    /\ Free(t)
    /\ \E r \in Requests :
         task' = [task EXCEPT ![t] =
                    [Call("ticker", r[1], r[2], 0) EXCEPT
                        !.pc = "get", !.recent = RecentlySet(r[1], r[2])]]
    /\ UNCHANGED <<store, batch, batchResult, settings_COINMARKETCAP_KEY>>

\* Mutant of get_ticker_begin: the adapter is constructed inside the try block, so
\* that the constructor's 404 reaches the except clause and its fallback.
get_ticker_begin_inside_try(k) ==
    IF ~CCXTAdapter_init_ok(k.exchange)
    THEN IF Truthy(settings_COINMARKETCAP_KEY)
         THEN cmc_begin([k EXCEPT !.fallbacks = @ + 1], settings_COINMARKETCAP_KEY)
         ELSE [k EXCEPT !.pc = "done",
                        !.out = Raises(HTTPException(404, "Exchange not found"))]
    ELSE [k EXCEPT !.pc = "fetch", !.adapter = "open", !.primary = @ + 1]

\* The function body from its first line to its first await:
\* fetcher.py:30-32, ccxt_adapter.py:22-27 and 46-47
get_ticker_begin(k) ==
    IF ~CCXTAdapter_init_ok(k.exchange)
    THEN [k EXCEPT !.pc = "done", !.out = Raises(HTTPException(404, "Exchange not found"))]
    ELSE [k EXCEPT !.pc = "fetch", !.adapter = "open", !.primary = @ + 1]

\* cached.decorator once cache.get has answered: a value is returned as it is,
\* None starts the function.
cached_lookup(k, entries) ==
    LET value == cache_get(entries, key_builder(k.exchange, k.symbol))
    IN  IF value.kind # "None"
        THEN [k EXCEPT !.pc = "done", !.hit = TRUE, !.out = Returns(value)]
        ELSE get_ticker_begin(k)

CacheGet(t) ==
    /\ task[t].pc = "get"
    /\ task' = [task EXCEPT ![t] = cached_lookup(task[t], store)]
    /\ UNCHANGED <<store, batch, batchResult, settings_COINMARKETCAP_KEY>>

\* Mutants of get_ticker_answered: the fallback without the key test; the
\* fallback for every status; an except clause that leaves without the finally.
get_ticker_answered_any_key(k, r, key) ==
    LET seen == [k EXCEPT !.primaryStatus = IF r.kind = "value" THEN 200
                                            ELSE r.err.status]
    IN  IF r.kind = "error" /\ r.err.status = 404
        THEN cmc_begin([seen EXCEPT !.fallbacks = @ + 1], key)
        ELSE [seen EXCEPT !.pc = "close", !.out = r]

get_ticker_answered_any_status(k, r, key) ==
    LET seen == [k EXCEPT !.primaryStatus = IF r.kind = "value" THEN 200
                                            ELSE r.err.status]
    IN  IF r.kind = "error" /\ Truthy(key)
        THEN cmc_begin([seen EXCEPT !.fallbacks = @ + 1], key)
        ELSE [seen EXCEPT !.pc = "close", !.out = r]

get_ticker_answered_no_finally(k, r, key) ==
    LET seen == [k EXCEPT !.primaryStatus = IF r.kind = "value" THEN 200
                                            ELSE r.err.status]
    IN  IF r.kind = "error" /\ r.err.status = 404 /\ Truthy(key)
        THEN cmc_begin([seen EXCEPT !.fallbacks = @ + 1], key)
        ELSE [seen EXCEPT !.pc = IF r.kind = "error" THEN "done" ELSE "close", !.out = r]

\* Mutant of get_ticker_answered: the Ticker goes to the cache before the
\* finally clause has run.
get_ticker_answered_store_first(k, r, key) ==
    LET seen == [k EXCEPT !.primaryStatus = IF r.kind = "value" THEN 200
                                            ELSE r.err.status]
    IN  IF r.kind = "error" /\ r.err.status = 404 /\ Truthy(key)
        THEN cmc_begin([seen EXCEPT !.fallbacks = @ + 1], key)
        ELSE [seen EXCEPT !.pc = IF r.kind = "value" THEN "set" ELSE "close", !.out = r]

\* adapter.get_ticker has answered: fetcher.py:32-38.  A 404 with a key starts
\* the fallback; everything else leaves through the finally clause.
get_ticker_answered(k, r, key) ==
    LET seen == [k EXCEPT !.primaryStatus = IF r.kind = "value" THEN 200
                                            ELSE r.err.status]
    IN  IF r.kind = "error" /\ r.err.status = 404 /\ Truthy(key)
        THEN cmc_begin([seen EXCEPT !.fallbacks = @ + 1], key)
        ELSE [seen EXCEPT !.pc = "close", !.out = r]

TickerAnswer(t) ==
    /\ task[t].pc = "fetch"
    /\ task[t].op = "ticker"
    /\ \E up \in CcxtTickerAnswers(task[t].symbol) :
         task' = [task EXCEPT ![t] =
                    get_ticker_answered(task[t], CCXTAdapter_get_ticker(task[t].symbol, up),
                                        settings_COINMARKETCAP_KEY)]
    /\ UNCHANGED <<store, batch, batchResult, settings_COINMARKETCAP_KEY>>

\* client.get has answered one attempt: fetcher.py:102-127 under fetcher.py:83
cmc_answered(k, r) ==
    IF r.kind = "value" THEN cmc_returned(k, r) ELSE cmc_failed(k, r.err)

\* History: the response of the attempt that ended the call.
Heard(k, resp) == [k EXCEPT !.lastResp = resp]

CmcAnswer(t) ==
    /\ task[t].pc = "cmc"
    /\ \E resp \in CmcAnswers :
         task' = [task EXCEPT ![t] = cmc_answered(Heard(task[t], resp), cmc_body(task[t].symbol, resp))]
    /\ UNCHANGED <<store, batch, batchResult, settings_COINMARKETCAP_KEY>>

\* tenacity's sleep is over: the next attempt
CmcRetry(t) ==
    /\ task[t].pc = "cmc_wait"
    /\ task[t].wake = 0
    /\ task' = [task EXCEPT ![t] = cmc_begin(task[t], settings_COINMARKETCAP_KEY)]
    /\ UNCHANGED <<store, batch, batchResult, settings_COINMARKETCAP_KEY>>

\* Mutant of adapter_closed: the decorator writes whatever the function ended with.
adapter_closed_caching_errors(k) ==
    [k EXCEPT !.adapter = "closed", !.closes = @ + 1,
              !.pc = IF k.op = "ticker" THEN "set" ELSE "done"]

\* finally: await adapter.close() has completed (fetcher.py:38-39, 65-66, 74-75).
\* A Ticker goes back to the decorator, which writes it to the cache; an exception
\* passes through the decorator.
adapter_closed(k) ==
    [k EXCEPT !.adapter = "closed", !.closes = @ + 1,
              !.pc = IF k.op = "ticker" /\ k.out.kind = "value" THEN "set" ELSE "done"]

AdapterClose(t) ==
    /\ task[t].pc = "close"
    /\ task' = [task EXCEPT ![t] = adapter_closed(task[t])]
    /\ UNCHANGED <<store, batch, batchResult, settings_COINMARKETCAP_KEY>>

\* cached.decorator: set_in_cache(key, result), then return result
CacheSet(t) ==
    /\ task[t].pc = "set"
    /\ store' = set_in_cache(store, key_builder(task[t].exchange, task[t].symbol),
                             task[t].out.value)
    /\ task' = [task EXCEPT ![t] = [@ EXCEPT !.pc = "done", !.sets = @ + 1]]
    /\ UNCHANGED <<batch, batchResult, settings_COINMARKETCAP_KEY>>

\* The caller has the result; the coroutine is gone.
Return(t) ==
    /\ task[t].pc = "done"
    /\ ~InBatch(t)
    /\ task' = [task EXCEPT ![t] = Idle]
    /\ UNCHANGED <<store, batch, batchResult, settings_COINMARKETCAP_KEY>>

----------------------------------------------------------------------------
(* DataFetcher.get_batch_tickers: fetcher.py:41-54 *)

\* The tasks list of fetcher.py:46-49: one get_ticker coroutine per request, all
\* started by gather.
StartBatch ==
    /\ batch.state = "none"
    /\ \A t \in Tasks : task[t].pc = "idle"
    /\ \E n \in 0..MaxTasks : \E reqs \in [1..n -> Requests] :
         /\ task' = [t \in Tasks |->
                       IF t <= n
                       THEN [Call("ticker", reqs[t][1], reqs[t][2], 0) EXCEPT !.pc = "get"]
                       ELSE task[t]]
         /\ batch' = [state |-> "running", n |-> n]
    /\ batchResult' = NoBatchOut
    /\ UNCHANGED <<store, settings_COINMARKETCAP_KEY>>

\* Mutant of asyncio_gather: return_exceptions=False, the first exception is raised.
asyncio_gather_raising(outs) ==
    IF \E i \in 1..Len(outs) : outs[i].kind = "error"
    THEN BatchOut("error", <<>>,
                  outs[CHOOSE i \in 1..Len(outs) : outs[i].kind = "error"].err)
    ELSE BatchOut("value", outs, NoExc)

\* Mutant of asyncio_gather: the outcomes collected last first.
asyncio_gather_reversed(outs) ==
    BatchOut("value", [i \in 1..Len(outs) |-> outs[Len(outs) + 1 - i]], NoExc)

\* asyncio.gather(*tasks, return_exceptions=True): the outcomes in the order of
\* the tasks, an exception as a result like any other
asyncio_gather(outs) == BatchOut("value", outs, NoExc)

\* isinstance(res, Ticker)
isinstance_Ticker(res) == res.kind = "value" /\ res.value.kind = "Ticker"

\* fetcher.py:50-54
get_batch_tickers_return(outs) ==
    LET g == asyncio_gather(outs)
        successful_results == SelectSeq(g.results, isinstance_Ticker)
    IN  IF g.kind = "error" THEN g
        ELSE BatchOut("value",
                      [i \in 1..Len(successful_results) |-> successful_results[i].value],
                      NoExc)

\* Mutant of asyncio_gather_done: return_exceptions=False, gather is over at the
\* first exception while the other tasks run on.
asyncio_gather_done_first_exception(n) ==
    \/ \A t \in 1..n : task[t].pc = "done"
    \/ \E t \in 1..n : task[t].pc = "done" /\ task[t].out.kind = "error"

\* await asyncio.gather(*tasks, return_exceptions=True) is over when every task
\* has returned or raised.
asyncio_gather_done(n) == \A t \in 1..n : task[t].pc = "done"

BatchReturn ==
    /\ batch.state = "running"
    /\ asyncio_gather_done(batch.n)
    /\ batchResult' = get_batch_tickers_return([t \in 1..batch.n |-> task[t].out])
    /\ batch' = [batch EXCEPT !.state = "returned"]
    /\ UNCHANGED <<store, task, settings_COINMARKETCAP_KEY>>

\* The caller has the list; the coroutines are gone.
BatchDone ==
    /\ batch.state = "returned"
    /\ task' = [t \in Tasks |-> IF t <= batch.n THEN Idle ELSE task[t]]
    /\ batch' = NoBatch
    /\ batchResult' = NoBatchOut
    /\ UNCHANGED <<store, settings_COINMARKETCAP_KEY>>

----------------------------------------------------------------------------
(* DataFetcher.get_historical_data and get_order_book: fetcher.py:57-75 *)

\* Mutant of get_historical_data_begin: no capability check.
get_historical_data_begin_unchecked(k) ==
    IF ~CCXTAdapter_init_ok(k.exchange)
    THEN [k EXCEPT !.pc = "done", !.out = Raises(HTTPException(404, "Exchange not found"))]
    ELSE [k EXCEPT !.pc = "fetch", !.adapter = "open", !.primary = @ + 1]

\* fetcher.py:62-64 and ccxt_adapter.py:86-94, up to the first await
get_historical_data_begin(k) ==
    IF ~CCXTAdapter_init_ok(k.exchange)
    THEN [k EXCEPT !.pc = "done", !.out = Raises(HTTPException(404, "Exchange not found"))]
    ELSE IF ~has_fetchOHLCV(k.exchange)
    THEN [k EXCEPT !.pc = "close", !.adapter = "open", !.out = Raises(HTTPException(501, "Exchange does not support fetching OHLCV data"))]
    ELSE [k EXCEPT !.pc = "fetch", !.adapter = "open", !.primary = @ + 1]

StartHistorical(t) ==
    /\ Free(t)
    /\ \E r \in Requests :
         task' = [task EXCEPT ![t] =
                    get_historical_data_begin(Call("historical", r[1], r[2], 0))]
    /\ UNCHANGED <<store, batch, batchResult, settings_COINMARKETCAP_KEY>>

OhlcvAnswer(t) ==
    /\ task[t].pc = "fetch"
    /\ task[t].op = "historical"
    /\ \E up \in CcxtOhlcvAnswers :
         task' = [task EXCEPT ![t] =
                    [@ EXCEPT !.pc = "close", !.out = CCXTAdapter_get_historical_data(up),
                              !.cause = up.kind,
                              !.primaryStatus = IF up.kind = "ok" THEN 200 ELSE 500]]
    /\ UNCHANGED <<store, batch, batchResult, settings_COINMARKETCAP_KEY>>

Depths == {1, 2}

\* fetcher.py:71-73 and ccxt_adapter.py:122-123, up to the first await
get_order_book_begin(k) ==
    IF ~CCXTAdapter_init_ok(k.exchange)
    THEN [k EXCEPT !.pc = "done", !.out = Raises(HTTPException(404, "Exchange not found"))]
    ELSE [k EXCEPT !.pc = "fetch", !.adapter = "open", !.primary = @ + 1]

StartOrderBook(t) ==
    /\ Free(t)
    /\ \E r \in Requests : \E limit \in Depths :
         task' = [task EXCEPT ![t] =
                    get_order_book_begin(Call("order_book", r[1], r[2], limit))]
    /\ UNCHANGED <<store, batch, batchResult, settings_COINMARKETCAP_KEY>>

OrderBookAnswer(t) ==
    /\ task[t].pc = "fetch"
    /\ task[t].op = "order_book"
    /\ \E up \in CcxtOrderBookAnswers(task[t].symbol, task[t].limit) :
         task' = [task EXCEPT ![t] =
                    [@ EXCEPT !.pc = "close", !.out = CCXTAdapter_get_order_book(up),
                              !.primaryStatus = IF up.kind = "ok" THEN 200 ELSE 500]]
    /\ UNCHANGED <<store, batch, batchResult, settings_COINMARKETCAP_KEY>>

----------------------------------------------------------------------------
(* _fetch_from_coinmarketcap called on its own, and time *)

StartCmc(t) ==
    /\ Free(t)
    /\ \E symbol \in Symbols :
         task' = [task EXCEPT ![t] =
                    cmc_begin([Call("cmc", <<>>, symbol, 0) EXCEPT !.fallbacks = 1],
                              settings_COINMARKETCAP_KEY)]
    /\ UNCHANGED <<store, batch, batchResult, settings_COINMARKETCAP_KEY>>

\* A second passes for a task: a sleep gets shorter; the history flags of "this
\* second" (aged, recent) are over.
tick(k) ==
    [k EXCEPT !.wake = IF @ > 0 THEN @ - 1 ELSE 0,
              !.recent = IF k.pc = "get" THEN FALSE ELSE @,
              !.aged = k.pc = "done" /\ k.sets > 0]

\* A second passes; the memory backend deletes the entries whose ttl is over.
Tick ==
    /\ store' = Expire(store)
    /\ task' = [t \in Tasks |-> tick(task[t])]
    /\ UNCHANGED <<batch, batchResult, settings_COINMARKETCAP_KEY>>

Next ==
    \/ \E t \in Tasks : StartTicker(t)
    \/ \E t \in Tasks : CacheGet(t)
    \/ \E t \in Tasks : TickerAnswer(t)
    \/ \E t \in Tasks : CmcAnswer(t)
    \/ \E t \in Tasks : CmcRetry(t)
    \/ \E t \in Tasks : AdapterClose(t)
    \/ \E t \in Tasks : CacheSet(t)
    \/ \E t \in Tasks : Return(t)
    \/ StartBatch
    \/ BatchReturn
    \/ BatchDone
    \/ \E t \in Tasks : StartHistorical(t)
    \/ \E t \in Tasks : OhlcvAnswer(t)
    \/ \E t \in Tasks : StartOrderBook(t)
    \/ \E t \in Tasks : OrderBookAnswer(t)
    \/ \E t \in Tasks : StartCmc(t)
    \/ Tick

Spec == Init /\ [][Next]_vars

----------------------------------------------------------------------------
(* Claims *)

TickerTasks == {t \in Tasks : task[t].op = "ticker"}
Ended(t) == task[t].pc = "done"
Key(t) == key_builder(task[t].exchange, task[t].symbol)

\* C1: a ticker fetch issued, and answered by the cache, in the second in which a
\* fetch of the same (provider, symbol) completed with a Ticker is served from
\* the cache: it invokes no upstream ticker lookup and constructs no adapter.
C1_SecondFetchServedFromCache ==
    \A t \in TickerTasks :
        task[t].recent =>
            /\ task[t].primary = 0
            /\ task[t].adapter = "none"
            /\ (Ended(t) => task[t].hit)

C1_FailingInput ==
    \E t \in TickerTasks : task[t].recent /\ task[t].primary = 1 /\ store = {}

\* C3: in a ticker fetch the fallback is invoked, once, exactly when the primary
\* lookup failed with 404 and a key is configured; with a 404 and no key no
\* request goes to the secondary provider and the primary's 404 is what is raised.
PrimaryNotFound == HTTPException(404, "Symbol not found on exchange")

C3_FallbackGating ==
    \A t \in TickerTasks :
        /\ task[t].fallbacks =
              IF task[t].primaryStatus = 404 /\ Truthy(settings_COINMARKETCAP_KEY)
              THEN 1 ELSE 0
        /\ task[t].requests > 0 =>
              task[t].primaryStatus = 404 /\ Truthy(settings_COINMARKETCAP_KEY)
        /\ (task[t].primaryStatus = 404 /\ ~Truthy(settings_COINMARKETCAP_KEY)) =>
              /\ task[t].attempts = 0 /\ task[t].requests = 0
              /\ task[t].pc \in {"close", "done"}
              /\ task[t].out = Raises(PrimaryNotFound)

C3_Witness ==
    \E t \in TickerTasks :
        /\ Ended(t) /\ task[t].primaryStatus = 404
        /\ ~Truthy(settings_COINMARKETCAP_KEY)
        /\ task[t].out = Raises(PrimaryNotFound) /\ task[t].requests = 0

\* C4: when the primary lookup failed with 404, a key is configured and the
\* response of the secondary provider holds a quote for the symbol's base and
\* quote currency with a price and a volume_24h, the fetch returns a Ticker with
\* the requested symbol, last = price, volume = volume_24h, and bid, ask, high,
\* low as in the quote, 0 when the quote has none.
QuoteOf(symbol, resp) ==
    LET parts == split(symbol, Slash)
    IN  {e \in resp.data :
            /\ resp.kind = "response" /\ resp.status = 200 /\ resp.json
            /\ Len(parts) >= 2 /\ e.base = parts[1] /\ e.quote = parts[2]
            /\ e.q.price # Absent /\ e.q.volume_24h # Absent}

C4_FallbackTicker ==
    \A t \in TickerTasks :
        (/\ task[t].primaryStatus = 404 /\ Truthy(settings_COINMARKETCAP_KEY)
         /\ task[t].pc \in {"close", "set", "done"}
         /\ QuoteOf(task[t].symbol, task[t].lastResp) # {}) =>
            LET q == (CHOOSE e \in QuoteOf(task[t].symbol, task[t].lastResp) : TRUE).q
                got == task[t].out.value.val
            IN  /\ task[t].out.kind = "value"
                /\ task[t].out.value.kind = "Ticker"
                /\ got.symbol = task[t].symbol
                /\ got.last = q.price /\ got.volume = q.volume_24h
                /\ got.bid = dict_get(q.bid, 0) /\ got.ask = dict_get(q.ask, 0)
                /\ got.high = dict_get(q.high_24h, 0) /\ got.low = dict_get(q.low_24h, 0)

\* C5: a call of the secondary provider makes at most 3 attempts; it raises only
\* after 3 failed attempts, and it returns at the first attempt that succeeds:
\* every failed attempt but the third is followed by one more attempt, a
\* successful one by none.
C5_RetryBound ==
    \A t \in Tasks :
        /\ task[t].attempts <= MaxAttempts
        /\ task[t].pc \in {"cmc", "cmc_wait"} =>
              task[t].failures < MaxAttempts /\ task[t].out.kind = "none"
        /\ (task[t].fallbacks = 1 /\ task[t].pc \in {"close", "set", "done"}) =>
              IF task[t].out.kind = "error"
              THEN task[t].attempts = MaxAttempts /\ task[t].failures = MaxAttempts
              ELSE task[t].attempts = task[t].failures + 1

C5_Witness ==
    \E t, u \in Tasks :
        /\ Ended(t) /\ task[t].fallbacks = 1 /\ task[t].out.kind = "error"
        /\ task[t].attempts = MaxAttempts
        /\ Ended(u) /\ task[u].fallbacks = 1 /\ task[u].out.kind = "value"
        /\ task[u].attempts = 2

\* C6: when the fallback has failed on all attempts, the ticker fetch raises the
\* exception of the last attempt: an HTTPException with status 404 when the
\* response lacks the base or the quote key, with the status of the response when
\* that is an HTTP error status.
C6_FallbackErrorPreserved ==
    \A t \in TickerTasks :
        (task[t].fallbacks = 1 /\ Ended(t) /\ task[t].out.kind = "error") =>
            LET resp == task[t].lastResp
            IN  /\ task[t].out.err = cmc_body(task[t].symbol, resp).err
                /\ (resp.kind = "response" /\ resp.status >= 400) =>
                      /\ task[t].out.err.exc = "HTTPException"
                      /\ task[t].out.err.status = resp.status
                /\ (resp.kind = "response" /\ resp.status = 200 /\ resp.json
                    /\ resp.data = {}) =>
                      /\ task[t].out.err.exc = "HTTPException"
                      /\ task[t].out.err.status = 404

\* C7: get_batch_tickers never raises; it returns one Ticker for every item
\* whose fetch returned and nothing for an item whose fetch raised, so at most N
\* Tickers, and N - 1 when exactly one item failed.
BatchOk == {t \in 1..batch.n : task[t].out.kind = "value"}

C7_BatchIsolation ==
    batch.state = "returned" =>
        /\ batchResult.kind = "value"
        /\ Len(batchResult.results) = Cardinality(BatchOk)
        /\ Len(batchResult.results) <= batch.n
        /\ \A t \in BatchOk :
              \E i \in 1..Len(batchResult.results) :
                  batchResult.results[i] = task[t].out.value
        /\ \A i \in 1..Len(batchResult.results) :
              /\ batchResult.results[i].kind = "Ticker"
              /\ \E t \in BatchOk : batchResult.results[i] = task[t].out.value
        /\ Cardinality(BatchOk) = batch.n - 1 => Len(batchResult.results) = batch.n - 1

C7_Witness ==
    /\ batch.state = "returned" /\ batch.n = MaxTasks
    /\ Cardinality(BatchOk) = batch.n - 1
    /\ Len(batchResult.results) = batch.n - 1
    /\ \E t \in 1..batch.n : task[t].out.kind = "error" /\ task[t].primaryStatus = 503

\* C8: an adapter that a fetch has constructed is open while the fetch runs and
\* has been closed, once, when the fetch has returned or raised; no adapter is
\* closed twice.
Constructs(t) ==
    /\ task[t].op \in {"ticker", "historical", "order_book"}
    /\ task[t].pc \notin {"idle", "get"}
    /\ ~task[t].hit
    /\ CCXTAdapter_init_ok(task[t].exchange)

C8_AdapterClosedOnce ==
    \A t \in Tasks :
        /\ task[t].closes <= 1
        /\ (task[t].adapter = "closed") <=> (task[t].closes = 1)
        /\ Constructs(t) <=> (task[t].adapter # "none")
        /\ (task[t].adapter = "open") <=>
              (Constructs(t) /\ task[t].pc \in {"fetch", "cmc", "cmc_wait", "close"})
        /\ (Constructs(t) /\ task[t].pc \in {"set", "done"}) =>
              task[t].adapter = "closed" /\ task[t].closes = 1

C8_Witness ==
    \E t, u \in Tasks :
        /\ Ended(t) /\ task[t].op = "ticker" /\ task[t].fallbacks = 1
        /\ task[t].out.kind = "error" /\ task[t].closes = 1
        /\ Ended(u) /\ task[u].op = "order_book" /\ task[u].out.kind = "error"
        /\ task[u].closes = 1 /\ task[u].adapter = "closed"

\* C9: when the primary lookup fails with a status other than 404, the fetch
\* raises that exception: one primary lookup, no fallback and no request to the
\* secondary provider even with a key, no cache write.
PrimaryError(status) ==
    IF status = 503 THEN HTTPException(503, "Network error connecting")
    ELSE HTTPException(500, "An unexpected error occurred")

C9_OtherFailurePropagates ==
    \A t \in TickerTasks :
        task[t].primaryStatus \in {500, 503} =>
            /\ task[t].primary = 1
            /\ task[t].fallbacks = 0 /\ task[t].attempts = 0 /\ task[t].requests = 0
            /\ task[t].sets = 0
            /\ task[t].pc \in {"close", "done"}
            /\ task[t].out = Raises(PrimaryError(task[t].primaryStatus))
            /\ \A c \in store : c.key # Key(t)

C9_Witness ==
    \E t \in TickerTasks :
        /\ Ended(t) /\ task[t].primaryStatus = 503
        /\ Truthy(settings_COINMARKETCAP_KEY)
        /\ task[t].out = Raises(PrimaryError(503))

\* C10: a historical fetch on an exchange without fetchOHLCV raises the 501
\* HTTPException without an upstream call, and its adapter is closed.
Unsupported == HTTPException(501, "Exchange does not support fetching OHLCV data")

C10_HistoricalUnsupported ==
    \A t \in Tasks :
        (/\ task[t].op = "historical"
         /\ CCXTAdapter_init_ok(task[t].exchange)
         /\ ~has_fetchOHLCV(task[t].exchange)) =>
            /\ task[t].primary = 0 /\ task[t].primaryStatus = 0
            /\ task[t].pc \in {"close", "done"}
            /\ task[t].out = Raises(Unsupported)
            /\ task[t].adapter = IF Ended(t) THEN "closed" ELSE "open"
            /\ task[t].closes = IF Ended(t) THEN 1 ELSE 0

C10_Witness ==
    \E t \in Tasks :
        /\ Ended(t) /\ task[t].op = "historical" /\ task[t].exchange = ExB
        /\ task[t].out = Raises(Unsupported) /\ task[t].adapter = "closed"

\* C11: on an exchange that has fetchOHLCV, a historical fetch whose upstream call
\* failed raises the error get_ticker raises for the same cause: 404 for a symbol
\* the exchange does not know, 503 for a network error, 500 for any other.
FailureCauses == {"BadSymbol", "NetworkError", "Exception"}

TickerErrorFor(symbol, cause) ==
    CCXTAdapter_get_ticker(symbol, [kind |-> cause, data |-> ticker_data(symbol, 0, 0)]).err

C11_HistoricalClassifiesLikeTicker ==
    \A t \in Tasks :
        (/\ task[t].op = "historical" /\ task[t].cause \in FailureCauses
         /\ task[t].pc \in {"close", "done"}) =>
            /\ task[t].out.kind = "error"
            /\ task[t].out.err.exc = TickerErrorFor(task[t].symbol, task[t].cause).exc
            /\ task[t].out.err.status = TickerErrorFor(task[t].symbol, task[t].cause).status

----------------------------------------------------------------------------
(* The key builder on arbitrary strings *)

\* exchange and symbol arrive verbatim from the URL: any string, colons included.
AnyStrings == UNION {[1..n -> {"a", Colon}] : n \in 1..MaxStrLen}

\* get_ticker called with any two strings: fetcher.py:21-23
StartTickerAny(t) ==
    /\ Free(t)
    /\ \E exchange \in AnyStrings : \E symbol \in AnyStrings :
         task' = [task EXCEPT ![t] =
                    [Call("ticker", exchange, symbol, 0) EXCEPT
                        !.pc = "get", !.recent = RecentlySet(exchange, symbol)]]
    /\ UNCHANGED <<store, batch, batchResult, settings_COINMARKETCAP_KEY>>

InitKey == Init /\ ~Truthy(settings_COINMARKETCAP_KEY)

NextKey ==
    \/ \E t \in Tasks : StartTickerAny(t)
    \/ \E t \in Tasks : CacheGet(t)
    \/ \E t \in Tasks : TickerAnswer(t)
    \/ \E t \in Tasks : AdapterClose(t)
    \/ \E t \in Tasks : CacheSet(t)
    \/ \E t \in Tasks : Return(t)

SpecKey == InitKey /\ [][NextKey]_vars

\* C12: two ticker requests have the same cache key exactly when they have the
\* same exchange and the same symbol.
C12_KeyInjective ==
    \A t, u \in TickerTasks :
        (Key(t) = Key(u)) <=>
            (task[t].exchange = task[u].exchange /\ task[t].symbol = task[u].symbol)

\* C13: the value read from the cache under a fetch's key, in the second in which
\* the fetch handed its Ticker to the cache and no other fetch wrote that key, is
\* that Ticker: the same kind of record with the same fields.
C13_CacheRoundTrip ==
    \A t \in TickerTasks :
        (/\ Ended(t) /\ task[t].sets > 0 /\ ~task[t].aged
         /\ \A u \in TickerTasks \ {t} : task[u].sets > 0 => Key(u) # Key(t)) =>
            /\ cache_get(store, Key(t)).kind = "Ticker"
            /\ cache_get(store, Key(t)) = task[t].out.value

\* C14: a call of _fetch_from_coinmarketcap without a configured key sends no
\* request, and what its caller gets is the HTTPException with status 501.
NotConfigured == HTTPException(501, "CoinMarketCap API key not configured")

C14_NoKeyNotConfigured ==
    \A t \in Tasks :
        (task[t].op = "cmc" /\ ~Truthy(settings_COINMARKETCAP_KEY)) =>
            /\ task[t].requests = 0
            /\ Ended(t) => task[t].out = Raises(NotConfigured)

\* C15: an order book returned for depth d has at most d bids and at most d asks,
\* each side as the exchange sent it.
C15_OrderBookDepth ==
    \A t \in Tasks :
        (task[t].op = "order_book" /\ task[t].out.kind = "value") =>
            LET book == task[t].out.value.val
            IN  /\ book.bids \in Levels /\ book.asks \in Levels
                /\ Len(book.bids) <= task[t].limit
                /\ Len(book.asks) <= task[t].limit

\* C16: when get_batch_tickers has returned, every fetch it started has returned
\* or raised and the adapter each of them constructed is closed; a fetch that has
\* ended while the batch runs has ended with its own value or exception.
C16_BatchWaitsForAll ==
    /\ batch.state = "returned" =>
          \A t \in 1..batch.n :
              /\ Ended(t)
              /\ task[t].adapter # "open"
              /\ Constructs(t) => task[t].adapter = "closed" /\ task[t].closes = 1
    /\ batch.state # "none" =>
          \A t \in 1..batch.n :
              /\ task[t].op = "ticker"
              /\ Ended(t) => task[t].out.kind \in {"value", "error"}

C16_Witness ==
    /\ batch.state = "returned" /\ batch.n = MaxTasks
    /\ \E t, u \in 1..batch.n :
          /\ task[t].out.kind = "error" /\ task[t].primaryStatus = 503
          /\ task[t].closes = 1
          /\ task[u].out.kind = "value" /\ task[u].fallbacks = 1
          /\ task[u].attempts = MaxAttempts /\ task[u].closes = 1

\* C17: when two fetches of one batch with the same key have both missed the
\* cache, both called the exchange and both handed their Ticker to the cache in
\* this second, the cache holds an entry under the key, and it is the Ticker of
\* one of the two.
C17_BothWriteLastWins ==
    \A t, u \in TickerTasks :
        (/\ t # u /\ InBatch(t) /\ InBatch(u) /\ Key(t) = Key(u)
         /\ task[t].primary = 1 /\ task[u].primary = 1
         /\ Ended(t) /\ Ended(u) /\ task[t].sets = 1 /\ task[u].sets = 1
         /\ ~task[t].aged /\ ~task[u].aged) =>
            \E c \in store :
                /\ c.key = Key(t)
                /\ c.value.val \in {task[t].out.value.val, task[u].out.value.val}

\* C18 as claimed: in a fetch that missed the cache and got a Ticker, the adapter
\* is not closed before the Ticker has been handed to the cache, and the fetch
\* has returned only when both have happened.
Obtained(t) == task[t].op = "ticker" /\ ~task[t].hit /\ task[t].out.kind = "value"

C18_StoreBeforeRelease ==
    \A t \in Tasks :
        Obtained(t) =>
            /\ task[t].adapter = "closed" => task[t].sets > 0
            /\ Ended(t) => task[t].sets = 1 /\ task[t].closes = 1

\* C18 as amended: in a fetch that missed the cache and got a Ticker, from the
\* exchange or through the fallback, the adapter is closed first, then the Ticker
\* is handed to the cache, then the fetch returns; the cache write is never
\* issued while the adapter is open.
C18_ReleaseBeforeStore ==
    \A t \in Tasks :
        Obtained(t) =>
            /\ task[t].pc \in {"close", "set", "done"}
            /\ task[t].pc = "close" =>
                  task[t].adapter = "open" /\ task[t].closes = 0 /\ task[t].sets = 0
            /\ task[t].pc = "set" =>
                  task[t].adapter = "closed" /\ task[t].closes = 1 /\ task[t].sets = 0
            /\ task[t].pc = "done" =>
                  task[t].adapter = "closed" /\ task[t].closes = 1 /\ task[t].sets = 1

C18_Witness ==
    \E t, u \in Tasks :
        /\ Obtained(t) /\ Ended(t) /\ task[t].fallbacks = 1 /\ task[t].sets = 1
        /\ Obtained(u) /\ task[u].pc = "set" /\ task[u].fallbacks = 0
        /\ task[u].adapter = "closed"

\* C19: in a ticker fetch the exchange is called only after the cache lookup has
\* missed and the secondary provider only after the exchange has answered 404; and
\* a fetch started in the second in which a fetch of the same key handed a Ticker
\* from the fallback to the cache calls neither.
StoredByFallback(t) ==
    \E u \in TickerTasks \ {t} :
        /\ Ended(u) /\ task[u].fallbacks = 1 /\ task[u].sets > 0 /\ ~task[u].aged
        /\ Key(u) = Key(t)

C19_SequentialAndFallbackCached ==
    \A t \in TickerTasks :
        /\ task[t].pc = "get" =>
              task[t].primary = 0 /\ task[t].requests = 0 /\ task[t].adapter = "none"
        /\ task[t].primary > 0 => ~task[t].hit
        /\ task[t].requests > 0 => task[t].primary = 1 /\ task[t].primaryStatus = 404
        /\ (task[t].recent /\ StoredByFallback(t)) =>
              task[t].primary = 0 /\ task[t].requests = 0

\* C20: a ticker fetch that ends in an exception hands nothing to the cache;
\* every cache entry is a valid Ticker with a ttl of at most TTL seconds; and a
\* lookup for the key of a failed fetch, when no fetch has stored under that key,
\* misses, so that the fetch goes on to the exchange.
C20_FailuresNeverCached ==
    /\ \A t \in TickerTasks :
          task[t].out.kind = "error" =>
              /\ task[t].sets = 0
              /\ task[t].pc \in {"close", "done"}
    /\ \A c \in store : Ticker_valid(c.value.val) /\ c.ttl \in 1..TTL
    /\ \A t, u \in TickerTasks :
          (/\ task[t].pc = "get" /\ Ended(u) /\ task[u].out.kind = "error"
           /\ Key(u) = Key(t)
           /\ \A w \in TickerTasks : task[w].sets > 0 => Key(w) # Key(t)) =>
              LET next == cached_lookup(task[t], store)
              IN  /\ ~next.hit
                  /\ CCXTAdapter_init_ok(task[t].exchange) =>
                        next.pc = "fetch" /\ next.primary = 1

C20_Witness ==
    \E t, u \in TickerTasks :
        /\ t # u /\ Key(t) = Key(u) /\ ~InBatch(t)
        /\ Ended(u) /\ task[u].out.kind = "error" /\ task[u].fallbacks = 1
        /\ task[u].sets = 0 /\ store = {}
        /\ task[t].pc = "fetch" /\ task[t].primary = 1

\* C21: a ticker fetch for an exchange that ccxt does not know raises the 404 of
\* the adapter's constructor, with or without a key: no fallback and no request
\* to the secondary provider, no adapter and so no close, no lookup at an
\* exchange, nothing handed to the cache.
ExchangeNotFound == HTTPException(404, "Exchange not found")

C21_UnknownExchangeNoFallback ==
    \A t \in TickerTasks :
        (~CCXTAdapter_init_ok(task[t].exchange) /\ task[t].pc # "get") =>
            /\ Ended(t)
            /\ task[t].out = Raises(ExchangeNotFound)
            /\ task[t].fallbacks = 0 /\ task[t].attempts = 0 /\ task[t].requests = 0
            /\ task[t].adapter = "none" /\ task[t].closes = 0
            /\ task[t].primary = 0 /\ task[t].sets = 0
            /\ \A c \in store : c.key # Key(t)

C21_Witness ==
    \E t \in TickerTasks :
        /\ Ended(t) /\ task[t].exchange = ExZ
        /\ Truthy(settings_COINMARKETCAP_KEY)
        /\ task[t].out = Raises(ExchangeNotFound) /\ task[t].closes = 0

\* C22: the list get_batch_tickers returns holds the Tickers of the successful
\* items in the order of the items: the Ticker of a successful item stands at the
\* position that counts the successful items up to it, whichever fetch ended
\* first.
Rank(t) == Cardinality({u \in BatchOk : u <= t})

C22_BatchOrder ==
    batch.state = "returned" =>
        /\ batchResult.kind = "value"
        /\ \A t \in BatchOk :
              /\ Rank(t) <= Len(batchResult.results)
              /\ batchResult.results[Rank(t)] = task[t].out.value

\* Both items succeeded with different Tickers, and the second had ended a second
\* before the first did.
C22_Witness ==
    /\ batch.state = "returned" /\ batch.n = MaxTasks /\ BatchOk = 1..batch.n
    /\ task[1].out.value # task[MaxTasks].out.value
    /\ task[MaxTasks].aged /\ ~task[1].aged
    /\ task[1].fallbacks = 1
    /\ batchResult.results[1] = task[1].out.value

====
